---- MODULE Spec2Model ----
(***************************************************************************)
(* Model of the round / level state machine of src/Hangman.py              *)
(* (HangmanGame.play_game and the helpers it calls).  One action per       *)
(* prompt of the game (menu choice, difficulty, category, guess): the      *)
(* action is the handler that runs from that input to the next prompt of   *)
(* the game, the answers it asks for on the way (the name to save a score  *)
(* under, the confirmation of clear_leaderboard) included.                 *)
(***************************************************************************)
EXTENDS Integers, Sequences, FiniteSets, TLC

VARIABLES
    pc,              \* where the program waits: see PcValues
    level,           \* self.level
    global_score,    \* self.global_score
    level_score,     \* self.level_score
    hints,           \* self.hints
    mode,            \* self.mode
    word_list,       \* play_game local word_list
    word_to_guess,   \* play_game local
    hidden_word,     \* play_game local
    guessed_letters, \* play_game local (set)
    attempts_left,   \* play_game local
    wrong_guesses,   \* play_game local
    guessed,         \* play_game local
    one_time_guess,  \* play_game local
    event,           \* what the last handler reported to the player
    saved,           \* the save_score_pickle calls made by the last handler
    score_file,      \* high_scores.pkl: "missing", "empty" or the pickled list
    call_stack,      \* the store followed call by call: the running calls of
                     \* load_scores_pickle / save_score_pickle
    returned         \* the store followed call by call: what the last
                     \* finished call of the two returned

vars == <<pc, level, global_score, level_score, hints, mode, word_list,
          word_to_guess, hidden_word, guessed_letters, attempts_left,
          wrong_guesses, guessed, one_time_guess, event, saved,
          score_file, call_stack, returned>>

sessionVars == <<level, global_score, hints, mode, word_list>>
roundVars == <<level_score, word_to_guess, hidden_word, guessed_letters,
               attempts_left, wrong_guesses, guessed, one_time_guess>>
storeVars == <<score_file, call_stack, returned>>

----------------------------------------------------------------------------
(* Bounds *)

\* rounds won in a row that the model follows
MaxLevel == 2

\* frames of load_scores_pickle / save_score_pickle the interpreter allows
\* before it raises RecursionError (sys.getrecursionlimit(), scaled down)
RecursionLimit == 4

\* records in high_scores.pkl that the model follows
MaxRecords == 1

----------------------------------------------------------------------------
(* Strings are sequences of one-character strings. *)

Range(s) == {s[i] : i \in DOMAIN s}

Max(a, b) == IF a >= b THEN a ELSE b

\* the lower-case letters the model uses
AlphaLower == {"a", "e", "t", "x", "y", "z", "q", "j", "v",
               "s", "p", "h", "i", "n"}
\* upper-case letters the player may type
AlphaUpper == {"T", "E"}

\* str.lower() on one character
LowerChar(c) ==
    CASE c = "T" -> "t"
      [] c = "E" -> "e"
      [] OTHER -> c

\* str.lower()
Lower(s) == [i \in DOMAIN s |-> LowerChar(s[i])]

\* the characters str.isalpha() accepts
AlphaChars == AlphaLower \cup AlphaUpper

\* str.isalpha(): non-empty and every character a letter
IsAlpha(s) == Len(s) > 0 /\ \A i \in DOMAIN s : s[i] \in AlphaChars

Tea == <<"t", "e", "a">>
Tee == <<"t", "e", "e">>
CmdStop == <<"s", "t", "p">>
CmdHint == <<"h", "i", "n", "t">>

\* the word lists the WordProvider returned (load_word_list)
easy_words == <<Tee>>
\* a longer Normal list, for following one round in depth
easy_words_wide == <<Tea, Tee>>
hard_words == <<Tee>>
AnimalsWords == <<Tee>>
MoviesWords == <<>>

\* select_word_category: the categories table
CategoryKeys == {"1", "3"}
CategoryName(k) == IF k = "1" THEN "Animals" ELSE "Movies"
CategoryWords(k) == IF k = "1" THEN AnimalsWords ELSE MoviesWords

PcValues == {"menu", "difficulty", "category", "playing", "won", "lost",
             "stop_menu", "quit", "crashed"}


\* the player names typed at the "save your score" prompt
Names == {"ann"}

\* what the player may type at the guess prompt (full game)
TypedInputs ==
    {<<"a">>, <<"e">>, <<"t">>, <<"T">>,
     Tea, Tee,
     CmdStop, CmdHint,
     <<>>, <<"7">>, <<"t", " ">>}

\* a wider keyboard for following one round in depth
TypedWideInputs ==
    {<<"a">>, <<"e">>, <<"t">>, <<"x">>, <<"y">>, <<"z">>, <<"q">>,
     <<"j">>, <<"v">>,
     Tea, Tee, CmdStop, CmdHint, <<"7">>}

\* player_guess = input(...).lower()
Inputs == {Lower(g) : g \in TypedInputs}
WideInputs == {Lower(g) : g \in TypedWideInputs}

DifficultyInputs == {"1", "2", "3", "hard", "0"}
CategoryInputs == {"1", "3", "b", "9"}
MenuInputs == {"1", "2", "3", "4", "5", "9"}
\* what the player may answer to "Are you sure ...? (yes/no)"
ConfirmInputs == {"yes", "YES", " yes ", "no", ""}
\* the confirmation is asked for under choice "3" only
AnswersAsked(choice) == IF choice = "3" THEN ConfirmInputs ELSE {""}
LostInputs == {"1", "2", "3"}

None == "None"

----------------------------------------------------------------------------
(* Helpers of HangmanGame *)

\* "-" * len(word_to_guess)
Dashes(word) == [i \in DOMAIN word |-> "-"]

\* variant: only the first occurrence of the letter is revealed
update_hidden_word_first(word, hidden, letter) ==
    [i \in DOMAIN word |->
        IF word[i] = letter /\ \A j \in 1..(i - 1) : word[j] # letter
        THEN letter
        ELSE hidden[i]]

\* update_hidden_word: every position of the letter is revealed
update_hidden_word(word, hidden, letter) ==
    [i \in DOMAIN word |-> IF word[i] = letter THEN letter ELSE hidden[i]]

\* variant: a hint shows the chosen position only
get_hint_one_position(word, hidden, h) ==
    IF h <= 0
    THEN {[hidden |-> hidden, letter |-> None, hints |-> h,
           msg |-> "no_hints"]}
    ELSE LET hidden_positions == {i \in DOMAIN hidden : hidden[i] = "-"}
         IN  IF hidden_positions = {}
             THEN {[hidden |-> hidden, letter |-> None, hints |-> h,
                    msg |-> "all_revealed"]}
             ELSE {[hidden |-> [hidden EXCEPT ![p] = word[p]],
                    letter |-> word[p],
                    hints |-> h - 1,
                    msg |-> "hint_used"] : p \in hidden_positions}

\* variant: a hint is given without taking it from self.hints
get_hint_free(word, hidden, h) ==
    IF h <= 0
    THEN {[hidden |-> hidden, letter |-> None, hints |-> h,
           msg |-> "no_hints"]}
    ELSE LET hidden_positions == {i \in DOMAIN hidden : hidden[i] = "-"}
         IN  IF hidden_positions = {}
             THEN {[hidden |-> hidden, letter |-> None, hints |-> h,
                    msg |-> "all_revealed"]}
             ELSE {[hidden |-> update_hidden_word(word, hidden, word[p]),
                    letter |-> word[p],
                    hints |-> h,
                    msg |-> "hint_used"] : p \in hidden_positions}

\* the results get_hint can return, one per random.choice outcome:
\* the new hidden word, the revealed letter, the new self.hints and the
\* message it prints
get_hint(word, hidden, h) ==
    IF h <= 0
    THEN {[hidden |-> hidden, letter |-> None, hints |-> h,
           msg |-> "no_hints"]}
    ELSE LET hidden_positions == {i \in DOMAIN hidden : hidden[i] = "-"}
         IN  IF hidden_positions = {}
             THEN {[hidden |-> hidden, letter |-> None, hints |-> h,
                    msg |-> "all_revealed"]}
             ELSE {[hidden |-> update_hidden_word(word, hidden, word[p]),
                    letter |-> word[p],
                    hints |-> h - 1,
                    msg |-> "hint_used"] : p \in hidden_positions}

\* variant: the loss is noticed one attempt too late
check_game_status_late(hidden, word, attempts) ==
    IF hidden = word THEN "win"
    ELSE IF attempts < 0 THEN "lose"
    ELSE "continue"

check_game_status(hidden, word, attempts) ==
    IF hidden = word THEN "win"
    ELSE IF attempts = 0 THEN "lose"
    ELSE "continue"

\* variant: a repeated letter is not recognised
AlreadyGuessedNever(letter, letters) == FALSE

\* play_game: "if player_guess in guessed_letters"
AlreadyGuessed(letter, letters) == letter \in letters

\* variant: a correct letter scores 10 for each position it shows
LetterHitScorePerPosition(score, word, letter) ==
    score + 10 * Cardinality({i \in DOMAIN word : word[i] = letter})

\* play_game: score after a correct letter
LetterHitScore(score, word, letter) == score + 10

\* variant: the penalty without the floor
LetterMissScoreNoFloor(score) == score - 5

\* play_game: score after an incorrect letter
LetterMissScore(score) == Max(0, score - 5)

\* play_game: score after an incorrect word
WordMissScore(score) == Max(0, score - 5)

\* variant: an incorrect letter costs two attempts
LetterMissAttemptsTwo(a) == a - 2

\* play_game: attempts after an incorrect letter / an incorrect word
LetterMissAttempts(a) == a - 1
\* variant: an incorrect word costs no attempt
WordMissAttemptsFree(a) == a
WordMissAttempts(a) == a - 1

\* variant: the whole-word bonus is always the regular one
WordBonusFlat(g) == 20

\* play_game: the bonus of a correct whole-word guess, and the flag
WordBonus(g) == IF g <= 1 THEN 50 ELSE 20
WordOneTime(g, flag) == IF g <= 1 THEN TRUE ELSE flag

\* play_game: a round is won by a guess / by a hint
WinHints(h) == h + 1
WinLevel(l) == l + 1
WinTotal(total, score) == total + score
\* variant: a win by hint scores 10 for each hint of the round
HintWinScorePerHint(score) == score + 10 * (guessed + 1)
HintWinScore(score) == score + 10
\* variant: a win by hint grants no hint
HintWinHintsNone(h) == h
\* variant: a win by hint takes a hint instead of granting one
HintWinHintsTaken(h) == h - 1
HintWinHints(h) == h + 1
HintWinLevel(l) == l + 1
\* variant: a win by hint does not reach the total
HintWinTotalNone(total, score) == total
HintWinTotal(total, score) == total + score

\* play_game: "if self.hints > 0" in the hint branch
HintsLeft(h) == h > 0

\* variant: play_game keeps the total on entry
EntryTotalKept(l, total) == total

\* play_game entry: "if self.level == 0: self.global_score = 0"
EntryTotal(l, total) == IF l = 0 THEN 0 ELSE total

\* save_score_pickle(player_name, player_score): the record it appends
ScoreEntry(name, score) == [name |-> name, score |-> score, mode |-> mode]

\* play_game: "if self.global_score > 0: ... save_score_pickle(...)"
SaveCalls(name, total) ==
    IF total > 0 THEN <<ScoreEntry(name, total)>> ELSE <<>>

----------------------------------------------------------------------------
(* The score file and the calls of the two store functions *)

\* high_scores.pkl: not there, there with no bytes (pickle.load raises
\* EOFError), or holding a pickled list of records
FileMissing == [state |-> "missing", scores |-> <<>>]
FileEmpty == [state |-> "empty", scores |-> <<>>]
FileOf(scores) == [state |-> "list", scores |-> scores]

\* what a finished call handed back: nothing, a list, or the RecursionError
\* that ended it
NoValue == [kind |-> "none", scores |-> <<>>]
ListValue(scores) == [kind |-> "list", scores |-> scores]
RecursionError == [kind |-> "RecursionError", scores |-> <<>>]

\* one running call: the function, where it stands, and save's arguments
Frame(fn, at, name, score) ==
    [fn |-> fn, at |-> at, name |-> name, score |-> score]
LoadFrame == Frame("load", "open", None, 0)
SaveFrame(name, score) == Frame("save", "load", name, score)

\* the scores play_game passes to save_score_pickle
SavedScores == {10, 50}

\* high_scores.pkl as run() leaves it before the first prompt: a missing
\* file was created with a pickled []; a file that was there is kept, be
\* it one of 0 bytes or one with the records of earlier launches
StartFiles ==
    {FileOf(<<>>),
     FileEmpty,
     FileOf(<<[name |-> "ann", score |-> 10, mode |-> "Normal"]>>),
     FileOf(<<[name |-> "bob", score |-> 10, mode |-> "Hard"]>>)}

\* save_score_pickle run to its end: on a pickled list the loaded list is
\* read, the record appended and the file written again; on a missing or
\* empty file load_scores_pickle and save_score_pickle call each other
\* until RecursionError, and nothing is written
SaveCompletes(file) == file.state = "list"

\* the file after the save_score_pickle calls of one handler
FileAfterSaves(file, calls) ==
    IF calls = <<>> \/ ~SaveCompletes(file)
    THEN file
    ELSE FileOf(file.scores \o calls)

\* the handler's save_score_pickle call raises RecursionError, which
\* play_game and run() do not catch
SaveCrashes(file, calls) == calls # <<>> /\ ~SaveCompletes(file)

\* confirm = input(...).strip().lower()
StripLower(answer) ==
    CASE answer = "YES" -> "yes"
      [] answer = " yes " -> "yes"
      [] OTHER -> answer

\* clear_leaderboard: on "yes" the file is overwritten with a pickled []
clear_leaderboard(file, answer) ==
    IF StripLower(answer) = "yes" THEN FileOf(<<>>) ELSE file

----------------------------------------------------------------------------
(* The state after HangmanGame.__init__ and the first screens of run():    *)
(* the program waits at the main menu; the locals of play_game do not      *)
(* exist yet and are given neutral values.  run() has created the score    *)
(* file with a pickled [] if it was missing and has kept it otherwise.     *)

Init ==
    /\ pc = "menu"
    /\ level = 0
    /\ global_score = 0
    /\ level_score = 0
    /\ hints = 1
    /\ mode = "Unknown"
    /\ word_list = <<>>
    /\ word_to_guess = <<>>
    /\ hidden_word = <<>>
    /\ guessed_letters = {}
    /\ attempts_left = 6
    /\ wrong_guesses = 0
    /\ guessed = 0
    /\ one_time_guess = FALSE
    /\ event = "none"
    /\ saved = <<>>
    /\ score_file \in StartFiles
    /\ call_stack = <<>>
    /\ returned = NoValue

\* variant: the guessed letters and the flag of the last round are kept
StartRoundKeepsLetters(words) ==
    /\ \E k \in DOMAIN words :
          /\ word_to_guess' = Lower(words[k])
          /\ hidden_word' = Dashes(Lower(words[k]))
    /\ guessed' = 0
    /\ level_score' = 0
    /\ attempts_left' = 6
    /\ wrong_guesses' = 0
    /\ pc' = "playing"
    /\ event' = "new_round"
    /\ UNCHANGED <<guessed_letters, one_time_guess>>

\* play_game: "Initialize round variables" and "Pick a random word", after
\* which the program waits for the player's guess
StartRound(words) ==
    /\ \E k \in DOMAIN words :
          /\ word_to_guess' = Lower(words[k])
          /\ hidden_word' = Dashes(Lower(words[k]))
    /\ guessed' = 0
    /\ one_time_guess' = FALSE
    /\ level_score' = 0
    /\ guessed_letters' = {}
    /\ attempts_left' = 6
    /\ wrong_guesses' = 0
    /\ pc' = "playing"
    /\ event' = "new_round"

----------------------------------------------------------------------------
(* Menus *)

\* display_game_rules, one choice of its menu: the new score file and
\* whether the menu is left.  "2" (display_leaderboard), "4"
\* (display_extra_tips) and an invalid choice change nothing and the menu
\* is shown again; so does an exception raised under the menu (the
\* RecursionError of display_leaderboard on a missing or empty file), which
\* its "except Exception" catches.  "3" is clear_leaderboard.
RulesMenuFile(choice, answer) ==
    IF choice = "3" THEN clear_leaderboard(score_file, answer) ELSE score_file

\* display_game_rules called by run(): "1" returns and run() enters
\* play_game, which resets the total when level is 0 and asks the difficulty;
\* "5" leaves the program
MainMenu(choice, answer) ==
    /\ pc = "menu"
    /\ UNCHANGED <<call_stack, returned>>
    /\ score_file' = RulesMenuFile(choice, answer)
    /\ IF choice = "1"
       THEN /\ pc' = "difficulty"
            /\ global_score' = EntryTotal(level, global_score)
       ELSE IF choice = "5"
       THEN /\ pc' = "quit"
            /\ UNCHANGED global_score
       ELSE UNCHANGED <<pc, global_score>>
    /\ event' = "menu"
    /\ saved' = <<>>
    /\ UNCHANGED <<level, hints, mode, word_list>>
    /\ UNCHANGED roundVars

\* display_game_rules called by play_game after "stp": "1" returns
\* "main-menu" to run(), which shows the main menu again
StopMenu(choice, answer) ==
    /\ pc = "stop_menu"
    /\ UNCHANGED <<call_stack, returned>>
    /\ score_file' = RulesMenuFile(choice, answer)
    /\ pc' = IF choice = "1" THEN "menu"
             ELSE IF choice = "5" THEN "quit"
             ELSE pc
    /\ event' = "menu"
    /\ saved' = <<>>
    /\ UNCHANGED sessionVars
    /\ UNCHANGED roundVars

\* variant: choosing hard leaves self.hints as it is
select_difficulty_keeps_hints(difficulty) ==
    /\ pc = "difficulty"
    /\ UNCHANGED storeVars
    /\ saved' = <<>>
    /\ UNCHANGED <<level, global_score>>
    /\ CASE difficulty \in {"easy", "1"} ->
              /\ mode' = "Normal"
              /\ hints' = 3
              /\ word_list' = easy_words
              /\ StartRound(easy_words)
         [] difficulty \in {"hard", "2"} ->
              /\ mode' = "Hard"
              /\ UNCHANGED hints
              /\ word_list' = hard_words
              /\ StartRound(hard_words)
         [] difficulty \in {"custom", "3"} ->
              /\ mode' = "Custom-Game"
              /\ hints' = 2
              /\ pc' = "category"
              /\ event' = "menu"
              /\ UNCHANGED word_list
              /\ UNCHANGED roundVars
         [] OTHER ->
              /\ event' = "bad_choice"
              /\ UNCHANGED <<pc, mode, hints, word_list>>
              /\ UNCHANGED roundVars

\* select_difficulty: one answer to the difficulty prompt
select_difficulty(difficulty) ==
    /\ pc = "difficulty"
    /\ UNCHANGED storeVars
    /\ saved' = <<>>
    /\ UNCHANGED <<level, global_score>>
    /\ CASE difficulty \in {"easy", "1"} ->
              /\ mode' = "Normal"
              /\ hints' = 3
              /\ word_list' = easy_words
              /\ StartRound(easy_words)
         [] difficulty \in {"hard", "2"} ->
              /\ mode' = "Hard"
              /\ hints' = 1
              /\ word_list' = hard_words
              /\ StartRound(hard_words)
         [] difficulty \in {"custom", "3"} ->
              /\ mode' = "Custom-Game"
              /\ hints' = 2
              /\ pc' = "category"
              /\ event' = "menu"
              /\ UNCHANGED word_list
              /\ UNCHANGED roundVars
         [] OTHER ->
              /\ event' = "bad_choice"
              /\ UNCHANGED <<pc, mode, hints, word_list>>
              /\ UNCHANGED roundVars

select_word_category(choice) ==
    /\ pc = "category"
    /\ UNCHANGED storeVars
    /\ saved' = <<>>
    /\ UNCHANGED <<level, global_score, hints>>
    /\ IF choice = "b"
       THEN /\ pc' = "difficulty"
            /\ event' = "menu"
            /\ UNCHANGED <<mode, word_list>>
            /\ UNCHANGED roundVars
       ELSE IF choice \in CategoryKeys
       THEN IF CategoryWords(choice) = <<>>
            THEN /\ event' = "no_words"
                 /\ UNCHANGED <<pc, mode, word_list>>
                 /\ UNCHANGED roundVars
            ELSE /\ mode' = "Custom:" \o CategoryName(choice)
                 /\ word_list' = CategoryWords(choice)
                 /\ StartRound(CategoryWords(choice))
       ELSE /\ event' = "bad_choice"
            /\ UNCHANGED <<pc, mode, word_list>>
            /\ UNCHANGED roundVars

\* the post-loss menu of play_game and what run() does with its result
LostMenu(play_again) ==
    /\ pc = "lost"
    /\ UNCHANGED storeVars
    /\ saved' = <<>>
    /\ event' = "menu"
    /\ IF play_again = "1"
       THEN /\ pc' = "difficulty"
            /\ global_score' = EntryTotal(level, global_score)
       ELSE IF play_again = "3"
       THEN /\ pc' = "quit"
            /\ UNCHANGED global_score
       ELSE /\ pc' = "menu"
            /\ UNCHANGED global_score
    /\ UNCHANGED <<level, hints, mode, word_list>>
    /\ UNCHANGED roundVars

\* play_game: "End of current level, continue to next level"
NextLevel ==
    /\ pc = "won"
    /\ UNCHANGED storeVars
    /\ level < MaxLevel
    /\ StartRound(word_list)
    /\ saved' = <<>>
    /\ UNCHANGED sessionVars

----------------------------------------------------------------------------
(* The guess prompt of play_game.  player_guess is input().lower(); the    *)
(* code tests "stp", "hint", single letter, word, in this order.           *)

\* play_game: "Check game status after each guess", given the new hidden
\* word and attempts; level_score' is set by the caller
AfterGuess(hidden, attempts) ==
    LET status == check_game_status(hidden, word_to_guess, attempts)
    IN  CASE status = "win" ->
               /\ global_score' = WinTotal(global_score, level_score')
               /\ level' = WinLevel(level)
               /\ hints' = WinHints(hints)
               /\ saved' = <<>>
               /\ pc' = "won"
               /\ UNCHANGED score_file
          [] status = "lose" ->
               /\ level' = 0
               /\ \E name \in Names : saved' = SaveCalls(name, global_score)
               /\ Len(score_file.scores) + Len(saved') <= MaxRecords
               /\ score_file' = FileAfterSaves(score_file, saved')
               /\ pc' = IF SaveCrashes(score_file, saved')
                        THEN "crashed"
                        ELSE "lost"
               /\ UNCHANGED <<global_score, hints>>
          [] OTHER ->
               /\ saved' = <<>>
               /\ UNCHANGED <<pc, global_score, level, hints, score_file>>

\* play_game: "Handle stop game command"
Stop(player_guess) ==
    /\ pc = "playing"
    /\ UNCHANGED <<call_stack, returned>>
    /\ player_guess = CmdStop
    /\ \E name \in Names : saved' = SaveCalls(name, global_score)
    /\ Len(score_file.scores) + Len(saved') <= MaxRecords
    /\ score_file' = FileAfterSaves(score_file, saved')
    /\ pc' = IF SaveCrashes(score_file, saved') THEN "crashed" ELSE "stop_menu"
    /\ event' = "stopped"
    /\ UNCHANGED sessionVars
    /\ UNCHANGED roundVars

\* variant: the hint branch without any check of self.hints
HintRequestNoCheck(player_guess) ==
    /\ pc = "playing"
    /\ UNCHANGED storeVars
    /\ player_guess # CmdStop
    /\ player_guess = CmdHint
    /\ saved' = <<>>
    /\ UNCHANGED <<mode, word_list, word_to_guess, attempts_left,
                   wrong_guesses, one_time_guess>>
    /\ \E p \in {i \in DOMAIN hidden_word : hidden_word[i] = "-"} :
          /\ hidden_word' = update_hidden_word(word_to_guess, hidden_word,
                                               word_to_guess[p])
          /\ guessed_letters' = guessed_letters \cup {word_to_guess[p]}
          /\ guessed' = guessed + 1
          /\ event' = "hint_used"
          /\ IF hidden_word' = word_to_guess
             THEN /\ level_score' = HintWinScore(level_score)
                  /\ global_score' = HintWinTotal(global_score, level_score')
                  /\ level' = HintWinLevel(level)
                  /\ hints' = HintWinHints(hints - 1)
                  /\ pc' = "won"
             ELSE /\ hints' = hints - 1
                  /\ UNCHANGED <<level_score, global_score, level, pc>>

HintRequest(player_guess) ==
    /\ pc = "playing"
    /\ UNCHANGED storeVars
    /\ player_guess # CmdStop
    /\ player_guess = CmdHint
    /\ saved' = <<>>
    /\ UNCHANGED <<mode, word_list, word_to_guess, attempts_left,
                   wrong_guesses, one_time_guess>>
    /\ IF HintsLeft(hints)
       THEN \E r \in get_hint(word_to_guess, hidden_word, hints) :
              /\ hidden_word' = r.hidden
              /\ IF r.hidden # hidden_word /\ r.letter # None
                 THEN /\ guessed_letters' = guessed_letters \cup {r.letter}
                      /\ guessed' = guessed + 1
                      /\ event' = r.msg
                      /\ IF r.hidden = word_to_guess
                         THEN /\ level_score' = HintWinScore(level_score)
                              /\ global_score' =
                                    HintWinTotal(global_score, level_score')
                              /\ level' = HintWinLevel(level)
                              /\ hints' = HintWinHints(r.hints)
                              /\ pc' = "won"
                         ELSE /\ hints' = r.hints
                              /\ UNCHANGED <<level_score, global_score,
                                             level, pc>>
                 ELSE /\ hints' = r.hints
                      /\ event' = r.msg
                      /\ UNCHANGED <<guessed_letters, guessed, level_score,
                                     global_score, level, pc>>
       ELSE /\ event' = "no_hints"
            /\ UNCHANGED <<hidden_word, guessed_letters, guessed,
                           level_score, global_score, level, hints, pc>>

GuessLetter(player_guess) ==
    /\ pc = "playing"
    /\ UNCHANGED <<call_stack, returned>>
    /\ player_guess # CmdStop
    /\ player_guess # CmdHint
    /\ Len(player_guess) = 1
    /\ IsAlpha(player_guess)
    /\ UNCHANGED <<mode, word_list, word_to_guess, one_time_guess>>
    /\ IF AlreadyGuessed(player_guess[1], guessed_letters)
       THEN /\ event' = "repeat"
            /\ saved' = <<>>
            /\ UNCHANGED <<pc, level, global_score, hints, level_score,
                           hidden_word, guessed_letters, attempts_left,
                           wrong_guesses, guessed, score_file>>
       ELSE /\ guessed_letters' = guessed_letters \cup {player_guess[1]}
            /\ IF player_guess[1] \in Range(word_to_guess)
               THEN /\ hidden_word' =
                          update_hidden_word(word_to_guess, hidden_word,
                                             player_guess[1])
                    /\ guessed' = guessed + 1
                    /\ level_score' =
                          LetterHitScore(level_score, word_to_guess,
                                         player_guess[1])
                    /\ event' = "correct"
                    /\ UNCHANGED <<wrong_guesses, attempts_left>>
               ELSE /\ wrong_guesses' = wrong_guesses + 1
                    /\ attempts_left' = LetterMissAttempts(attempts_left)
                    /\ level_score' = LetterMissScore(level_score)
                    /\ event' = "incorrect"
                    /\ UNCHANGED <<hidden_word, guessed>>
            /\ AfterGuess(hidden_word', attempts_left')

GuessWord(player_guess) ==
    /\ pc = "playing"
    /\ UNCHANGED <<call_stack, returned>>
    /\ player_guess # CmdStop
    /\ player_guess # CmdHint
    /\ Len(player_guess) > 1
    /\ IsAlpha(player_guess)
    /\ UNCHANGED <<mode, word_list, word_to_guess, guessed_letters,
                   guessed>>
    /\ IF player_guess = word_to_guess
       THEN /\ hidden_word' = word_to_guess
            /\ one_time_guess' = WordOneTime(guessed, one_time_guess)
            /\ level_score' = level_score + WordBonus(guessed)
            /\ event' = "word_correct"
            /\ UNCHANGED <<wrong_guesses, attempts_left>>
       ELSE /\ wrong_guesses' = wrong_guesses + 1
            /\ attempts_left' = WordMissAttempts(attempts_left)
            /\ level_score' = WordMissScore(level_score)
            /\ event' = "word_incorrect"
            /\ UNCHANGED <<hidden_word, one_time_guess>>
    /\ AfterGuess(hidden_word', attempts_left')

\* variant: an invalid input costs an attempt
InvalidInputPenalised(player_guess) ==
    /\ pc = "playing"
    /\ UNCHANGED storeVars
    /\ player_guess # CmdStop
    /\ player_guess # CmdHint
    /\ ~(Len(player_guess) = 1 /\ IsAlpha(player_guess))
    /\ ~(Len(player_guess) > 1 /\ IsAlpha(player_guess))
    /\ attempts_left > 1
    /\ attempts_left' = attempts_left - 1
    /\ wrong_guesses' = wrong_guesses + 1
    /\ event' = "invalid"
    /\ saved' = <<>>
    /\ UNCHANGED <<pc, level_score, word_to_guess, hidden_word,
                   guessed_letters, guessed, one_time_guess>>
    /\ UNCHANGED sessionVars

InvalidInput(player_guess) ==
    /\ pc = "playing"
    /\ UNCHANGED storeVars
    /\ player_guess # CmdStop
    /\ player_guess # CmdHint
    /\ ~(Len(player_guess) = 1 /\ IsAlpha(player_guess))
    /\ ~(Len(player_guess) > 1 /\ IsAlpha(player_guess))
    /\ event' = "invalid"
    /\ saved' = <<>>
    /\ UNCHANGED <<pc>>
    /\ UNCHANGED sessionVars
    /\ UNCHANGED roundVars

----------------------------------------------------------------------------
(* The whole game, from the main menu *)

Next ==
    \/ \E choice \in MenuInputs :
          \E answer \in AnswersAsked(choice) : MainMenu(choice, answer)
    \/ \E choice \in MenuInputs :
          \E answer \in AnswersAsked(choice) : StopMenu(choice, answer)
    \/ \E difficulty \in DifficultyInputs : select_difficulty(difficulty)
    \/ \E choice \in CategoryInputs : select_word_category(choice)
    \/ \E play_again \in LostInputs : LostMenu(play_again)
    \/ NextLevel
    \/ \E player_guess \in Inputs : Stop(player_guess)
    \/ \E player_guess \in Inputs : HintRequest(player_guess)
    \/ \E player_guess \in Inputs : GuessLetter(player_guess)
    \/ \E player_guess \in Inputs : GuessWord(player_guess)
    \/ \E player_guess \in Inputs : InvalidInput(player_guess)

Spec == Init /\ [][Next]_vars

----------------------------------------------------------------------------
(* One round followed in depth with the wider keyboard: the state right    *)
(* after a difficulty was chosen at the start of a game                    *)

InitRound ==
    /\ pc = "playing"
    /\ level = 0
    /\ global_score = 0
    /\ level_score = 0
    /\ \E d \in {"Normal", "Hard"} :
          /\ mode = d
          /\ hints = (IF d = "Normal" THEN 3 ELSE 1)
          /\ word_list =
                (IF d = "Normal" THEN easy_words_wide ELSE hard_words)
    /\ \E k \in DOMAIN word_list :
          /\ word_to_guess = Lower(word_list[k])
          /\ hidden_word = Dashes(Lower(word_list[k]))
    /\ guessed_letters = {}
    /\ attempts_left = 6
    /\ wrong_guesses = 0
    /\ guessed = 0
    /\ one_time_guess = FALSE
    /\ event = "new_round"
    /\ saved = <<>>
    /\ score_file \in StartFiles
    /\ call_stack = <<>>
    /\ returned = NoValue

NextRound ==
    \/ \E player_guess \in WideInputs : Stop(player_guess)
    \/ \E player_guess \in WideInputs : HintRequest(player_guess)
    \/ \E player_guess \in WideInputs : GuessLetter(player_guess)
    \/ \E player_guess \in WideInputs : GuessWord(player_guess)
    \/ \E player_guess \in WideInputs : InvalidInput(player_guess)

SpecRound == InitRound /\ [][NextRound]_vars

----------------------------------------------------------------------------
(* One round whose word list holds words that are also commands of the    *)
(* guess prompt: a category file with the lines "stp" and "hint"           *)

CommandWords == <<CmdStop, CmdHint>>

InitCommandWords ==
    /\ pc = "playing"
    /\ level = 0
    /\ global_score = 0
    /\ level_score = 0
    /\ mode = "Custom:" \o CategoryName("1")
    /\ hints = 2
    /\ word_list = CommandWords
    /\ \E k \in DOMAIN word_list :
          /\ word_to_guess = Lower(word_list[k])
          /\ hidden_word = Dashes(Lower(word_list[k]))
    /\ guessed_letters = {}
    /\ attempts_left = 6
    /\ wrong_guesses = 0
    /\ guessed = 0
    /\ one_time_guess = FALSE
    /\ event = "new_round"
    /\ saved = <<>>
    /\ score_file \in StartFiles
    /\ call_stack = <<>>
    /\ returned = NoValue

SpecCommandWords == InitCommandWords /\ [][NextRound]_vars

----------------------------------------------------------------------------
(* The score store on its own: calls of load_scores_pickle and             *)
(* save_score_pickle, with the file as the program may find it             *)

gameVars == <<pc, level, global_score, level_score, hints, mode, word_list,
              word_to_guess, hidden_word, guessed_letters, attempts_left,
              wrong_guesses, guessed, one_time_guess, event, saved>>

\* the running call and the calls that wait for it
Top == call_stack[Len(call_stack)]
Rest == SubSeq(call_stack, 1, Len(call_stack) - 1)

\* the running call, resumed later at another place, calls callee; past
\* the recursion limit the call raises RecursionError instead, which
\* neither function catches, so every frame is left
CallFrom(resumed, callee) ==
    IF Len(call_stack) < RecursionLimit
    THEN /\ call_stack' = Append(Rest, resumed) \o <<callee>>
         /\ returned' = NoValue
    ELSE /\ call_stack' = <<>>
         /\ returned' = RecursionError

\* display_leaderboard: scores = self.load_scores_pickle()
CallLoad ==
    /\ call_stack = <<>>
    /\ call_stack' = <<LoadFrame>>
    /\ returned' = NoValue
    /\ UNCHANGED score_file
    /\ UNCHANGED gameVars

\* play_game: self.save_score_pickle(player_name, self.global_score)
CallSave(name, score) ==
    /\ call_stack = <<>>
    /\ Len(score_file.scores) < MaxRecords
    /\ call_stack' = <<SaveFrame(name, score)>>
    /\ returned' = NoValue
    /\ UNCHANGED score_file
    /\ UNCHANGED gameVars

\* load_scores_pickle: open and unpickle the file; on FileNotFoundError or
\* EOFError call save_score_pickle("DefaultPlayer", 0), then return []
load_scores_pickle ==
    /\ call_stack # <<>>
    /\ Top.fn = "load"
    /\ UNCHANGED score_file
    /\ UNCHANGED gameVars
    /\ IF Top.at = "open"
       THEN IF score_file.state = "list"
            THEN /\ call_stack' = Rest
                 /\ returned' = ListValue(score_file.scores)
            ELSE CallFrom([Top EXCEPT !.at = "created"],
                          SaveFrame("DefaultPlayer", 0))
       ELSE /\ call_stack' = Rest
            /\ returned' = ListValue(<<>>)

\* save_score_pickle: scores = self.load_scores_pickle(), append the
\* record, write the file
save_score_pickle ==
    /\ call_stack # <<>>
    /\ Top.fn = "save"
    /\ UNCHANGED gameVars
    /\ IF Top.at = "load"
       THEN /\ CallFrom([Top EXCEPT !.at = "append"], LoadFrame)
            /\ UNCHANGED score_file
       ELSE /\ score_file' =
                  FileOf(Append(returned.scores,
                                ScoreEntry(Top.name, Top.score)))
            /\ call_stack' = Rest
            /\ returned' = NoValue

\* the game is in some mode; the file is as run() or clear_leaderboard
\* left it, was removed since, or was left with no bytes
InitStore ==
    /\ pc = "menu"
    /\ level = 0
    /\ global_score = 0
    /\ level_score = 0
    /\ hints = 1
    /\ mode \in {"Normal", "Hard", "Custom:" \o CategoryName("1")}
    /\ word_list = <<>>
    /\ word_to_guess = <<>>
    /\ hidden_word = <<>>
    /\ guessed_letters = {}
    /\ attempts_left = 6
    /\ wrong_guesses = 0
    /\ guessed = 0
    /\ one_time_guess = FALSE
    /\ event = "none"
    /\ saved = <<>>
    /\ score_file \in {FileMissing, FileEmpty, FileOf(<<>>)}
    /\ call_stack = <<>>
    /\ returned = NoValue

NextStore ==
    \/ CallLoad
    \/ \E name \in Names, score \in SavedScores : CallSave(name, score)
    \/ load_scores_pickle
    \/ save_score_pickle

SpecStore == InitStore /\ [][NextStore]_vars

TypeOK ==
    /\ pc \in PcValues
    /\ score_file.state \in {"missing", "empty", "list"}
    /\ Len(score_file.scores) <= MaxRecords
    /\ level \in 0..MaxLevel
    /\ hints \in Nat
    /\ global_score \in Nat
    /\ attempts_left \in 0..6

----------------------------------------------------------------------------
(* Properties *)


\* the letters and the words the player may type, lower-cased
TypedLetters == {g[1] : g \in {h \in Inputs : Len(h) = 1 /\ IsAlpha(h)}}
TypedWords == {g \in Inputs : Len(g) > 1 /\ IsAlpha(g)} \ {CmdStop, CmdHint}

\* the step handles an incorrect letter that was not guessed before, or an
\* incorrect whole-word guess: a guess that costs an attempt
MissStep ==
    \/ \E l \in (TypedLetters \ guessed_letters) \ Range(word_to_guess) :
          GuessLetter(<<l>>)
    \/ \E w \in TypedWords \ {word_to_guess} : GuessWord(w)

\* no letter guess, word guess or hint has acted on the round yet
FreshRound ==
    /\ pc = "playing"
    /\ guessed_letters = {}
    /\ wrong_guesses = 0
    /\ guessed = 0
    /\ hidden_word = Dashes(word_to_guess)

\* C1: guessing a letter that is already in guessed_letters changes none of
\* attempts_left, wrong_guesses, level_score, hidden_word, guessed_letters,
\* guessed and hints, and the round goes on.
C1_RepeatGuessNoChange ==
    [][\A l \in TypedLetters \cap guessed_letters :
          (pc = "playing" /\ GuessLetter(<<l>>))
          => /\ UNCHANGED <<attempts_left, wrong_guesses, level_score,
                            hidden_word, guessed_letters, guessed, hints>>
             /\ pc' = "playing"]_vars

\* a repeat was just rejected in a round that holds both correct and
\* incorrect letters and has scored
C1_Witness ==
    /\ pc = "playing"
    /\ event = "repeat"
    /\ guessed_letters \cap Range(word_to_guess) # {}
    /\ guessed_letters \ Range(word_to_guess) # {}
    /\ level_score > 0

\* C2: attempts_left is 6 at every round start, drops by exactly 1 on an
\* incorrect new letter and on an incorrect word, is changed by no other
\* step, and stays within 0..6.
C2_AttemptsBudget ==
    [][/\ attempts_left' \in 0..6
       /\ (pc # "playing" /\ pc' = "playing") => attempts_left' = 6
       /\ (pc # "playing" /\ pc' # "playing") => attempts_left' = attempts_left
       /\ pc = "playing" =>
            IF MissStep
            THEN attempts_left' = attempts_left - 1
            ELSE attempts_left' = attempts_left]_vars

\* an incorrect letter and an incorrect word have each cost one attempt
C2_Witness ==
    /\ pc = "playing"
    /\ event = "word_incorrect"
    /\ Cardinality(guessed_letters \ Range(word_to_guess)) = 1
    /\ wrong_guesses = 2
    /\ attempts_left = 4

\* C3: the round is lost exactly when attempts_left is 0 and the word is not
\* fully revealed, it is won exactly when the word is revealed, no state
\* waits for a guess with attempts_left = 0, and a round in which nothing
\* was revealed has level_score 0.
C3_LoseExactlyAtZero ==
    /\ pc = "lost" <=> (attempts_left = 0 /\ hidden_word # word_to_guess)
    /\ pc = "won" <=> hidden_word = word_to_guess
    /\ pc = "playing" => attempts_left > 0
    /\ hidden_word = Dashes(word_to_guess) => level_score = 0

\* six distinct wrong letters, nothing else, ended the round in a loss
C3_Witness ==
    /\ pc = "lost"
    /\ word_to_guess = Tea
    /\ guessed_letters = {"x", "y", "z", "q", "j", "v"}
    /\ wrong_guesses = 6
    /\ attempts_left = 0
    /\ level_score = 0

\* C4: level_score is never negative; an incorrect letter or word sets it to
\* max(0, level_score - 5) and no other step of a round decreases it.
C4_ScoreFloor ==
    [][/\ level_score' >= 0
       /\ pc = "playing" =>
            IF MissStep
            THEN level_score' = Max(0, level_score - 5)
            ELSE level_score' >= level_score]_vars

\* an incorrect letter in a round that had scored nothing: the floor acted
C4_Witness ==
    /\ pc = "playing"
    /\ event = "incorrect"
    /\ guessed = 0
    /\ wrong_guesses = 1
    /\ level_score = 0

\* C5: the correct whole word as the first action of a round gives
\* level_score 50, one_time_guess true, the word revealed and a win.
C5_FirstActionWord ==
    [][(FreshRound /\ GuessWord(word_to_guess))
          => /\ level_score' = 50
             /\ one_time_guess' = TRUE
             /\ hidden_word' = word_to_guess
             /\ pc' = "won"]_vars

\* a round won by the whole word with no earlier guess
C5_Witness ==
    /\ pc = "won"
    /\ event = "word_correct"
    /\ guessed_letters = {}
    /\ wrong_guesses = 0
    /\ guessed = 0
    /\ level_score = 50
    /\ one_time_guess

\* the hint balance select_difficulty gave for the current mode
HintsAtGameStart ==
    CASE mode = "Normal" -> 3
      [] mode = "Hard" -> 1
      [] OTHER -> 2

\* in the first round of a game: the letter guesses accepted so far, that
\* is the guessed letters that did not come from a hint
LetterGuessesMade ==
    Cardinality(guessed_letters) - (HintsAtGameStart - hints)

\* C6: the correct whole word after two or more accepted letter guesses,
\* correct or incorrect, adds 20, not 50, and leaves one_time_guess false.
C6_WordAfterTwoLetterGuesses ==
    [][(/\ pc = "playing"
        /\ LetterGuessesMade >= 2
        /\ GuessWord(word_to_guess))
          => /\ level_score' = level_score + 20
             /\ one_time_guess' = FALSE]_vars

\* C7: one_time_guess is true only if no letter guess was accepted earlier
\* in the round: in the first round of a game every guessed letter of a
\* round won with the flag came from a hint (the win gave one hint back).
C7_OneTimeOnlyFirstAction ==
    one_time_guess =>
        Cardinality(guessed_letters) = HintsAtGameStart + 1 - hints

\* C8: a hint request with no hints left changes none of hidden_word,
\* level_score, hints, attempts_left and guessed_letters, reports that no
\* hints are left, and the round goes on.
C8_NoHintsNoChange ==
    [][(pc = "playing" /\ hints = 0 /\ HintRequest(CmdHint))
          => /\ UNCHANGED <<hidden_word, level_score, hints, attempts_left,
                            guessed_letters>>
             /\ event' = "no_hints"
             /\ pc' = "playing"]_vars

\* a hint was refused in a round whose hints are used up
C8_Witness ==
    /\ pc = "playing"
    /\ event = "no_hints"
    /\ hints = 0
    /\ hidden_word # Dashes(word_to_guess)

\* the step is a hint request, which costs one hint when it reveals
HintCost == IF HintRequest(CmdHint) THEN 1 ELSE 0

\* C9: every win step, by letter, word or hint, adds exactly 1 to level and
\* grants exactly 1 hint (a winning hint has first cost one); no other step
\* of a round and no step after the win raises them.
C9_WinGrantsOnce ==
    [][/\ (pc = "playing" /\ pc' = "won")
          => /\ level' = level + 1
             /\ hints' = (hints - HintCost) + 1
       /\ (pc = "playing" /\ pc' # "won")
          => /\ level' <= level
             /\ hints' <= hints
       /\ pc = "won" => (level' = level /\ hints' = hints)]_vars

\* a first round in Normal mode won by its only hint
C9_Witness ==
    /\ pc = "won"
    /\ event = "hint_used"
    /\ mode = "Normal"
    /\ level = 1
    /\ hints = 3

\* C10: every win step adds the round's final level_score to global_score,
\* no other step of a round and no step after the win changes global_score,
\* and a round played at level 0 has global_score 0.
C10_WinAddsRoundScore ==
    [][/\ (pc = "playing" /\ pc' = "won")
          => global_score' = global_score + level_score'
       /\ (pc = "playing" /\ pc' # "won") => global_score' = global_score
       /\ pc = "won" => global_score' = global_score
       /\ (pc' = "playing" /\ level' = 0) => global_score' = 0]_vars

\* a second round won by a hint on top of an earlier round's score
C10_Witness ==
    /\ pc = "won"
    /\ event = "hint_used"
    /\ level = 2
    /\ level_score = 20
    /\ global_score > level_score

\* the hidden word that shows exactly the given letters of the word
Mask(word, letters) ==
    [i \in DOMAIN word |-> IF word[i] \in letters THEN word[i] ELSE "-"]

\* the round so far consists of correct letter guesses only: nothing was
\* missed, every guessed letter is in the word, scored 10 and is shown
CorrectLettersOnly ==
    /\ wrong_guesses = 0
    /\ attempts_left = 6
    /\ guessed_letters \subseteq Range(word_to_guess)
    /\ guessed = Cardinality(guessed_letters)
    /\ level_score = 10 * Cardinality(guessed_letters)
    /\ hidden_word = Mask(word_to_guess, guessed_letters)

\* C11: a round starts with no letter guessed; each guess of a letter of the
\* word in a round of correct letter guesses only keeps it such a round
\* (a repeated letter changes nothing); the guess that covers the last
\* distinct letter wins the round with the whole word shown, attempts_left
\* still 6 and level_score = 10 * (number of distinct letters), and before
\* that the round goes on.
C11_CorrectLettersWin ==
    [][/\ (pc # "playing" /\ pc' = "playing")
          => (CorrectLettersOnly' /\ guessed_letters' = {})
       /\ \A l \in TypedLetters \cap Range(word_to_guess) :
            (pc = "playing" /\ CorrectLettersOnly /\ GuessLetter(<<l>>))
            => /\ CorrectLettersOnly'
               /\ guessed_letters' = guessed_letters \cup {l}
               /\ IF guessed_letters' = Range(word_to_guess)
                  THEN /\ pc' = "won"
                       /\ hidden_word' = word_to_guess
                       /\ attempts_left' = 6
                       /\ level_score' =
                             10 * Cardinality(Range(word_to_guess))
                  ELSE pc' = "playing"]_vars

\* "tee" was won by the letter guesses t and e alone: two distinct letters,
\* three positions, 20 points, no attempt lost
C11_Witness ==
    /\ pc = "won"
    /\ event = "correct"
    /\ word_to_guess = Tee
    /\ hidden_word = Tee
    /\ guessed_letters = {"t", "e"}
    /\ guessed = 2
    /\ wrong_guesses = 0
    /\ attempts_left = 6
    /\ level_score = 20

\* C12: a hint that completes the word adds exactly 10 to level_score,
\* whatever the number of positions it showed and of hints used before;
\* any other hint request leaves level_score unchanged.
C12_HintCompletionAward ==
    [][(pc = "playing" /\ HintRequest(CmdHint))
          => IF hidden_word' = word_to_guess
             THEN level_score' = level_score + 10
             ELSE level_score' = level_score]_vars

\* "tee" was completed by hints alone, the second of the two hints ending
\* the round: 10 points for the two hints and the three positions
C12_Witness ==
    /\ pc = "won"
    /\ event = "hint_used"
    /\ word_to_guess = Tee
    /\ guessed_letters = {"t", "e"}
    /\ guessed = 2
    /\ wrong_guesses = 0
    /\ level_score = 10

\* the last round played ended in a loss (its locals are still in place
\* until the next round starts)
LastRoundLost ==
    /\ pc # "playing"
    /\ attempts_left = 0
    /\ hidden_word # word_to_guess

\* C13: the step that loses a round sets level to 0, and the first round
\* started after a lost round, by "start new game" or by way of the main
\* menu, starts with global_score = 0 and level = 0.
C13_FreshTotalsAfterLose ==
    [][/\ (pc = "playing" /\ pc' = "lost") => (level' = 0 /\ LastRoundLost')
       /\ (LastRoundLost /\ pc' = "playing")
          => (global_score' = 0 /\ level' = 0)]_vars

\* a game that had won a round (a hint was earned) and then lost one was
\* left through the post-loss menu; play_game was entered again, waits for
\* the difficulty and has put the total back to 0
C13_Witness ==
    /\ pc = "difficulty"
    /\ LastRoundLost
    /\ hints > HintsAtGameStart
    /\ level = 0
    /\ global_score = 0

\* C14: every first round of a game, that is every round started from the
\* difficulty or the category prompt of play_game, starts with
\* global_score = 0 and level = 0.
C14_EntryResetsTotals ==
    [][(pc \in {"difficulty", "category"} /\ pc' = "playing")
          => (global_score' = 0 /\ level' = 0)]_vars

\* a game was played before: the locals of its last round are in place
GamePlayedBefore == word_to_guess # <<>>

\* C15: the hint balance a game ended with is the balance of the next game:
\* once a game was played, choosing the difficulty of the next game leaves
\* hints as they were.
C15_HintsCarryOver ==
    [][(pc = "difficulty" /\ GamePlayedBefore) => hints' = hints]_vars

\* the step uses up the last attempt: check_game_status reports "lose"
LosingStep ==
    /\ pc = "playing"
    /\ attempts_left' # attempts_left
    /\ check_game_status(hidden_word', word_to_guess', attempts_left') = "lose"

\* the file after one more record for the running total was appended
AppendedTotal ==
    {FileOf(Append(score_file.scores,
                   [name |-> n, score |-> global_score, mode |-> mode])) :
        n \in Names}

\* C16: the step that loses a round appends a score record to the score
\* file exactly when global_score > 0; the record carries global_score, to
\* which the lost round's level_score was not added, and the mode of the
\* game; with global_score = 0 nothing is appended and the file is left
\* as it was.
C16_LoseSavesTotal ==
    [][LosingStep
          => /\ global_score' = global_score
             /\ mode' = mode
             /\ IF global_score > 0
                THEN score_file' \in AppendedTotal
                ELSE score_file' = score_file]_vars

\* C17: "stp" at the guess prompt appends a score record with global_score
\* to the score file exactly when global_score > 0, adds nothing of the
\* round in progress to global_score, leaves level and hints unchanged and
\* shows the rules menu inside play_game; that menu is shown until the
\* player picks "start game", on which play_game returns "main-menu" (the
\* main menu of run()), or "exit", which ends the program.
C17_StopSavesAndReturns ==
    [][/\ (pc = "playing" /\ Stop(CmdStop))
          => /\ IF global_score > 0
                THEN score_file' \in AppendedTotal
                ELSE score_file' = score_file
             /\ UNCHANGED <<global_score, level_score, level, hints>>
             /\ pc' = "stop_menu"
       /\ pc = "stop_menu"
          => /\ UNCHANGED <<global_score, level, hints>>
             /\ pc' \in {"stop_menu", "menu", "quit"}
             /\ StopMenu("1", "") => pc' = "menu"]_vars

\* C18 as stated: in every state each position of hidden_word shows its
\* letter exactly when that letter is in guessed_letters, and "-"
\* otherwise.
C18_RevealMaskAlways ==
    hidden_word = Mask(word_to_guess, guessed_letters)

\* C18: in every state other than a round just won by a correct whole-word
\* guess, each position of hidden_word shows its letter exactly when that
\* letter is in guessed_letters, and "-" otherwise; a correct whole-word
\* guess shows the whole word and adds nothing to guessed_letters.
C18_RevealMask ==
    IF pc = "won" /\ event = "word_correct"
    THEN hidden_word = word_to_guess
    ELSE hidden_word = Mask(word_to_guess, guessed_letters)

\* in "tee" the wrong letter a was guessed and a hint showed both e
C18_Witness ==
    /\ pc = "playing"
    /\ event = "hint_used"
    /\ word_to_guess = Tee
    /\ guessed_letters = {"a", "e"}
    /\ hidden_word = <<"-", "e", "e">>

\* C19: wrong_guesses = 6 - attempts_left in every state, wrong_guesses
\* stays within 0..6, the range of the seven HANGMANPICS stages it selects,
\* and no step of a round decreases it.
C19_WrongGuessCount ==
    /\ wrong_guesses = 6 - attempts_left
    /\ [][/\ wrong_guesses' = 6 - attempts_left'
          /\ wrong_guesses' \in 0..6
          /\ pc = "playing" => wrong_guesses' >= wrong_guesses]_vars

\* a round lost by incorrect letters and incorrect words together: the
\* last stage, index 6, is drawn
C19_Witness ==
    /\ pc = "lost"
    /\ event = "word_incorrect"
    /\ guessed_letters \ Range(word_to_guess) # {}
    /\ wrong_guesses = 6
    /\ attempts_left = 0

\* C20: a won or lost round takes no further guess or hint: the step that
\* uses up the last attempt ends the round in the post-loss menu, the only
\* step after a win leaves the round for a fresh round of the same game
\* (same level, total and hints), and the only step after a loss leaves the
\* round's locals as they are and takes play_game's result to run():
\* "restart" (play_game is entered again), "main-menu" or "quit".
C20_TerminalRounds ==
    [][/\ LosingStep => pc' = "lost"
       /\ pc = "won"
          => /\ pc' = "playing"
             /\ FreshRound'
             /\ level_score' = 0
             /\ attempts_left' = 6
             /\ UNCHANGED <<level, global_score, hints>>
       /\ pc = "lost"
          => /\ UNCHANGED roundVars
             /\ UNCHANGED <<level, hints>>
             /\ pc' \in {"difficulty", "menu", "quit"}
             /\ LostMenu("1") => pc' = "difficulty"
             /\ LostMenu("2") => pc' = "menu"
             /\ LostMenu("3") => pc' = "quit"]_vars

\* C21: hints is never negative, whatever hint requests, wins, losses,
\* stops and difficulty choices came before.
C21_HintsNeverNegative == hints >= 0

\* the last hint of a game was just spent on a letter and the round goes on
C21_Witness ==
    /\ pc = "playing"
    /\ event = "hint_used"
    /\ hints = 0
    /\ hidden_word # word_to_guess

\* C22: while a total is running, that is from a step that leaves
\* global_score above 0 to the next one, the mode does not change, so the
\* points in global_score were all earned under the current mode.
C22_ModeFixedPerTotal ==
    [][(global_score > 0 /\ global_score' > 0) => mode' = mode]_vars

\* C23: a correct guess of a letter not guessed before shows every position
\* of that letter and no other, adds exactly 10 to level_score whatever the
\* number of positions, adds 1 to guessed, and leaves attempts_left and
\* wrong_guesses unchanged; the guess neither spends nor earns a hint by
\* itself: hints is unchanged, except that a guess that completes the word
\* wins the round and the win grants its one hint (C9).
C23_CorrectLetterEffect ==
    [][\A l \in (TypedLetters \ guessed_letters) \cap Range(word_to_guess) :
          (pc = "playing" /\ GuessLetter(<<l>>))
          => /\ hidden_word' =
                   [i \in DOMAIN word_to_guess |->
                       IF word_to_guess[i] = l THEN l ELSE hidden_word[i]]
             /\ guessed_letters' = guessed_letters \cup {l}
             /\ level_score' = level_score + 10
             /\ guessed' = guessed + 1
             /\ UNCHANGED <<attempts_left, wrong_guesses>>
             /\ IF hidden_word' = word_to_guess
                THEN pc' = "won" /\ hints' = hints + 1
                ELSE pc' = "playing" /\ hints' = hints]_vars

\* the first guess of a game was e in "tee": both positions are shown for
\* 10 points and the hints of the difficulty are all there
C23_Witness ==
    /\ pc = "playing"
    /\ event = "correct"
    /\ level = 0
    /\ word_to_guess = Tee
    /\ hidden_word = <<"-", "e", "e">>
    /\ guessed_letters = {"e"}
    /\ guessed = 1
    /\ level_score = 10
    /\ attempts_left = 6
    /\ wrong_guesses = 0
    /\ hints = HintsAtGameStart

\* in the first round of a game: the correct single-letter guesses the
\* player made so far, that is the reveals counted in guessed that did not
\* come from a hint
CorrectLetterGuessesMade == guessed - (HintsAtGameStart - hints)

\* C24: a correct whole-word guess adds 50 and sets one_time_guess exactly
\* when the player made at most one correct single-letter guess earlier in
\* the round, and adds 20 otherwise; letters shown by hints do not count.
C24_WordBonusIgnoresHints ==
    [][(pc = "playing" /\ level = 0 /\ GuessWord(word_to_guess))
          => IF CorrectLetterGuessesMade <= 1
             THEN level_score' = level_score + 50 /\ one_time_guess' = TRUE
             ELSE /\ level_score' = level_score + 20
                  /\ one_time_guess' = one_time_guess]_vars

\* C25: a hint request at the guess prompt with hints > 0 takes exactly one
\* hint (a hint that completes the word wins the round, and the win gives
\* one back), shows every position of the letter at one position that was
\* still hidden, so at least one more position is shown, adds that letter
\* to guessed_letters, where a later guess of it counts as a repeat, and
\* leaves attempts_left and wrong_guesses unchanged.
C25_HintEffect ==
    [][(pc = "playing" /\ hints > 0 /\ HintRequest(CmdHint))
          => /\ \E p \in {i \in DOMAIN hidden_word : hidden_word[i] = "-"} :
                   /\ hidden_word' =
                         [i \in DOMAIN word_to_guess |->
                             IF word_to_guess[i] = word_to_guess[p]
                             THEN word_to_guess[p]
                             ELSE hidden_word[i]]
                   /\ guessed_letters' =
                         guessed_letters \cup {word_to_guess[p]}
                   /\ AlreadyGuessed(word_to_guess[p], guessed_letters')
             /\ hidden_word' # hidden_word
             /\ event' = "hint_used"
             /\ UNCHANGED <<attempts_left, wrong_guesses>>
             /\ IF hidden_word' = word_to_guess
                THEN pc' = "won" /\ hints' = (hints - 1) + 1
                ELSE pc' = "playing" /\ hints' = hints - 1]_vars

\* in a round with attempts already lost, the first hint of a Normal game
\* showed both e of "tee"
C25_Witness ==
    /\ pc = "playing"
    /\ event = "hint_used"
    /\ level = 0
    /\ mode = "Normal"
    /\ hints = 2
    /\ word_to_guess = Tee
    /\ hidden_word = <<"-", "e", "e">>
    /\ guessed_letters = {"a", "e"}
    /\ wrong_guesses = 2
    /\ attempts_left = 4

\* C26: whenever the player types the secret itself at the guess prompt,
\* and the secret is alphabetic with at least two letters, the input is
\* taken as a correct whole-word guess: the whole word is shown and the
\* round is won.
C26_SecretTypedWins ==
    [][(/\ pc = "playing"
        /\ Len(word_to_guess) >= 2
        /\ IsAlpha(word_to_guess)
        /\ \/ Stop(word_to_guess)
           \/ HintRequest(word_to_guess)
           \/ GuessLetter(word_to_guess)
           \/ GuessWord(word_to_guess)
           \/ InvalidInput(word_to_guess))
          => (hidden_word' = word_to_guess /\ pc' = "won")]_vars

\* the typed inputs that are neither a command, nor a single letter, nor
\* an alphabetic word: the empty input, a digit, a letter with a space
InvalidTyped == {g \in Inputs : g \notin {CmdStop, CmdHint} /\ ~IsAlpha(g)}

\* C27: an input that is neither a command, nor a single letter, nor an
\* alphabetic word changes none of attempts_left, wrong_guesses,
\* level_score, hidden_word, guessed_letters, guessed, hints, global_score
\* and level, and the round goes on.
C27_InvalidInputNoChange ==
    [][\A g \in InvalidTyped :
          (pc = "playing" /\ InvalidInput(g))
          => /\ UNCHANGED <<attempts_left, wrong_guesses, level_score,
                            hidden_word, guessed_letters, guessed, hints,
                            global_score, level>>
             /\ pc' = "playing"]_vars

\* an invalid input was just refused in a round that has a letter shown,
\* an attempt lost and points scored
C27_Witness ==
    /\ pc = "playing"
    /\ event = "invalid"
    /\ hidden_word # Dashes(word_to_guess)
    /\ wrong_guesses > 0
    /\ attempts_left = 6 - wrong_guesses
    /\ level_score > 0

\* C28: every step that starts a round, the one after a win included, sets
\* the round state afresh: a word of the list, hidden_word all "-" of the
\* word's length, guessed_letters empty, attempts_left 6, wrong_guesses 0,
\* level_score 0, guessed 0, one_time_guess false; the step after a win
\* carries global_score, level, hints and mode over unchanged.
C28_FreshRoundState ==
    [][(pc # "playing" /\ pc' = "playing")
          => /\ \E k \in DOMAIN word_list' :
                   word_to_guess' = Lower(word_list'[k])
             /\ hidden_word' = [i \in 1..Len(word_to_guess') |-> "-"]
             /\ guessed_letters' = {}
             /\ attempts_left' = 6
             /\ wrong_guesses' = 0
             /\ level_score' = 0
             /\ guessed' = 0
             /\ one_time_guess' = FALSE
             /\ pc = "won"
                => UNCHANGED <<global_score, level, hints, mode,
                               word_list>>]_vars

\* the second round of a game whose first round was won by the whole word
\* at once (flag set, 50 points): nothing of it is left but the total, the
\* level and the hint it earned
C28_Witness ==
    /\ pc = "playing"
    /\ event = "new_round"
    /\ level = 1
    /\ global_score = 50
    /\ hints = HintsAtGameStart + 1
    /\ hidden_word = Dashes(word_to_guess)
    /\ guessed_letters = {}
    /\ attempts_left = 6
    /\ wrong_guesses = 0
    /\ level_score = 0
    /\ guessed = 0
    /\ ~one_time_guess

\* C29: the first round of a game starts with the hints of the difficulty
\* finally chosen: 3 for Normal, 1 for Hard, 2 for Custom, also when the
\* player went to the category menu and back before choosing.
C29_HintsByDifficulty ==
    [][/\ (pc \in {"difficulty", "category"} /\ pc' = "playing")
          => \/ mode' = "Normal" /\ hints' = 3
             \/ mode' = "Hard" /\ hints' = 1
             \/ /\ \E k \in CategoryKeys :
                      mode' = "Custom:" \o CategoryName(k)
                /\ hints' = 2
       /\ \A d \in {"1", "2", "hard"} :
            (pc = "difficulty" /\ select_difficulty(d))
            => /\ pc' = "playing"
               /\ mode' = (IF d = "1" THEN "Normal" ELSE "Hard")
       /\ (pc = "category" /\ pc' = "playing")
          => \E k \in CategoryKeys : mode' = "Custom:" \o CategoryName(k)]_vars

\* a Custom game, chosen through the difficulty and the category prompt,
\* starts its first round with 2 hints
C29_Witness ==
    /\ pc = "playing"
    /\ event = "new_round"
    /\ level = 0
    /\ mode = "Custom:Animals"
    /\ hints = 2
    /\ FreshRound

\* C30: a call of load_scores_pickle or save_score_pickle that starts with
\* the score file missing or empty comes to its end normally: the load
\* returns the empty list, the save leaves a file that holds its record.
C30_StoreCallsComplete ==
    [][(/\ score_file.state \in {"missing", "empty"}
        /\ call_stack # <<>>
        /\ call_stack' = <<>>)
          => IF call_stack[1].fn = "load"
             THEN returned' = ListValue(<<>>)
             ELSE /\ score_file'.state = "list"
                  /\ \E i \in DOMAIN score_file'.scores :
                        score_file'.scores[i] =
                           ScoreEntry(call_stack[1].name,
                                      call_stack[1].score)]_vars

====
